---- MODULE Spec2Model ----
(***************************************************************************)
(* A model of the Atomic Red Team Markdown <-> JSON converters             *)
(* (data_processing/md_to_json.py and data_processing/json_to_md.py).      *)
(*                                                                         *)
(* A document is a sequence of newline-terminated lines.  A line is a      *)
(* record: k is the kind of marker the line starts with, t the free text   *)
(* it carries as a sequence of characters, n a printed name (technique id, *)
(* executor name, fence language, guid), e the "Elevation Required"        *)
(* marker, c the cells of a table row and p the printed platform names.    *)
(* The regular expressions of the parser are modelled by what they match   *)
(* on such lines, including the places where \s runs over line ends.       *)
(* Character positions are modelled by line indices: every position the    *)
(* parser computes lies at the end of a marker line or in the white space  *)
(* after it.                                                               *)
(***************************************************************************)
EXTENDS Integers, Sequences, FiniteSets, TLC

VARIABLES mode, obj, files, flags, idx, pc, cur, results, outputs, status

vars == <<mode, obj, files, flags, idx, pc, cur, results, outputs, status>>

-----------------------------------------------------------------------------
(* Characters and strings *)

\* The characters of free text: two letters, a blank, a backslash and the
\* HTML entity of a backslash (the five characters &#92; taken as one).
Chars == {"a", "b", "sp", "bs", "e92"}

Min(S) == CHOOSE x \in S : \A y \in S : x <= y
Max(S) == CHOOSE x \in S : \A y \in S : x >= y

AllSp(t) == \A i \in 1..Len(t) : t[i] = "sp"

\* str.lstrip / str.rstrip / str.strip on one line of characters
LTrim(t) ==
  IF AllSp(t) THEN <<>>
  ELSE SubSeq(t, Min({i \in 1..Len(t) : t[i] # "sp"}), Len(t))
RTrim(t) ==
  IF AllSp(t) THEN <<>>
  ELSE SubSeq(t, 1, Max({i \in 1..Len(t) : t[i] # "sp"}))
Trim(t) == LTrim(RTrim(t))

\* html.unescape on a line of characters: the entity becomes the backslash
unescape(t) == [i \in 1..Len(t) |-> IF t[i] = "e92" THEN "bs" ELSE t[i]]

-----------------------------------------------------------------------------
(* Lines *)

L(k) == [k |-> k, t |-> <<>>, n |-> "", e |-> FALSE, c |-> <<>>, p |-> <<>>]
LT(k, t) == [L(k) EXCEPT !.t = t]
LN(k, n) == [L(k) EXCEPT !.n = n]
LNE(k, n, e) == [L(k) EXCEPT !.n = n, !.e = e]
TextLine(t) == LT("text", t)
Blank == TextLine(<<>>)

\* the line has a character that is not white space
NonWs(l) == ~(l.k = "text" /\ AllSp(l.t))
\* the line has a character at all
HasChar(l) == ~(l.k = "text" /\ l.t = <<>>)

\* kinds whose free text ends the line
TrailingText == {"h1", "title", "desc", "text"}

LTrimLine(l) == IF l.k = "text" THEN [l EXCEPT !.t = LTrim(l.t)] ELSE l
RTrimLine(l) == IF l.k \in TrailingText THEN [l EXCEPT !.t = RTrim(l.t)] ELSE l
TrimLine(l) == LTrimLine(RTrimLine(l))

\* A string value is a sequence of lines; the empty string is <<>>.
\* str.strip on such a value.
Strip(s) ==
  LET N == {i \in 1..Len(s) : NonWs(s[i])}
  IN IF N = {} THEN <<>>
     ELSE LET a == Min(N)
              b == Max(N)
          IN [i \in 1..(b - a + 1) |->
                LET l == s[a + i - 1]
                    l1 == IF i = 1 THEN LTrimLine(l) ELSE l
                IN IF a + i - 1 = b THEN RTrimLine(l1) ELSE l1]

\* html.unescape on a string value
unescapeStr(s) == [i \in 1..Len(s) |-> [s[i] EXCEPT !.t = unescape(s[i].t)]]

\* a string value of one line of characters, stripped
Str(t) == IF AllSp(t) THEN <<>> ELSE <<TextLine(Trim(t))>>

\* first index i >= from of s whose line has a kind in K; 0 when there is none
FirstKind(s, from, K) ==
  LET S == {i \in from..Len(s) : s[i].k \in K}
  IN IF S = {} THEN 0 ELSE Min(S)

\* What "\s*(.+)$" (needWs FALSE) or "\s+(.+)$" (needWs TRUE) captures after a
\* marker on line i that is followed on its line by the characters rest:
\* the rest of the line when it holds a character that is not white space;
\* otherwise \s runs over the line ends and the capture is the next line that
\* holds such a character; otherwise a single blank of the white space
\* that follows (the empty string once stripped); otherwise no match.
\* last is the line the match ends on.
Capture(s, i, rest, needWs) ==
  LET later == {j \in (i + 1)..Len(s) : NonWs(s[j])}
      blanks == {j \in (i + 1)..Len(s) : HasChar(s[j])}
  IN IF ~AllSp(rest)
     THEN [ok |-> (~needWs) \/ rest[1] = "sp", val |-> Str(rest), last |-> i]
     ELSE IF later # {}
     THEN [ok |-> TRUE, val |-> <<TrimLine(s[Min(later)])>>, last |-> Min(later)]
     ELSE IF blanks # {}
     THEN [ok |-> TRUE, val |-> <<>>, last |-> Max(blanks)]
     ELSE [ok |-> Len(rest) >= (IF needWs THEN 2 ELSE 1), val |-> <<>>, last |-> i]

-----------------------------------------------------------------------------
(* Values of the JSON object *)

\* an optional value: absent, or present with a value
None == <<>>
Some(v) == <<v>>

\* a key of a JSON object: missing, null, or holding a string value
Absent == [st |-> "absent", v |-> <<>>]
Null == [st |-> "none", v |-> <<>>]
Val(s) == [st |-> "val", v |-> s]

NoExecutor ==
  [name |-> "", elevation_required |-> FALSE, key |-> "none", body |-> <<>>,
   cleanup_command |-> None]

NoTest ==
  [name |-> <<>>, description |-> <<>>, supported_platforms |-> <<>>,
   executor |-> NoExecutor, input_arguments |-> [form |-> "absent", items |-> <<>>],
   dependencies |-> None, dependency_executor_name |-> None,
   auto_generated_guid |-> None]

NoTechnique == [attack_technique |-> "", display_name |-> <<>>, atomic_tests |-> <<>>]

-----------------------------------------------------------------------------
(* md_to_json.py: the tables *)

\* ids of the shape [Tt]\d{4}(\.\d{3})? among the ids documents print
IsTechniqueId(n) == n \in {"T1059", "t1059.001", "T1059.001"}
Upper(n) == IF n = "t1059.001" THEN "T1059.001" ELSE n

PLATFORM_REVERSE_MAP ==
  [d \in {"Windows", "Linux", "macOS", "Office 365", "Azure AD", "IaaS", "SaaS",
          "AWS", "Azure", "GCP", "Google Workspace", "Containers", "ESXi"} |->
     CASE d = "Windows" -> "windows"
       [] d = "Linux" -> "linux"
       [] d = "macOS" -> "macos"
       [] d = "Office 365" -> "office-365"
       [] d = "Azure AD" -> "azure-ad"
       [] d = "IaaS" -> "iaas"
       [] d = "SaaS" -> "saas"
       [] d = "AWS" -> "iaas:aws"
       [] d = "Azure" -> "iaas:azure"
       [] d = "GCP" -> "iaas:gcp"
       [] d = "Google Workspace" -> "google-workspace"
       [] d = "Containers" -> "containers"
       [] d = "ESXi" -> "esxi"]

\* str.lower on the platform names documents print
lower(s) ==
  CASE s \in {"Windows", "WINDOWS"} -> "windows"
    [] s \in {"Linux", "LINUX"} -> "linux"
    [] s = "Macos" -> "macos"
    [] s = "Iaas:aws" -> "iaas:aws"
    [] s = "Aws" -> "aws"
    [] OTHER -> s

\* the shape [0-9a-fA-F-]{36} among the guids documents print
IsGuid(n) == n \in {"12345678-1234-1234-1234-123456789abc",
                    "ABCDEF01-0000-0000-0000-000000000000"}

\* the lines "^####\s" and "^##\s" match
Head4 == {"inputs", "manual", "attack", "cleanup", "deps"}
Head2 == {"title", "h2"}

-----------------------------------------------------------------------------
(* md_to_json.py: the parser *)

parse_technique_header(text) ==
  LET H == {i \in 1..Len(text) :
              /\ text[i].k = "h1"
              /\ IsTechniqueId(text[i].n)
              /\ Capture(text, i, text[i].t, FALSE).ok}
  IN IF H = {}
     THEN [ok |-> FALSE, attack_technique |-> "", display_name |-> <<>>]
     ELSE [ok |-> TRUE,
           attack_technique |-> Upper(text[Min(H)].n),
           display_name |-> Capture(text, Min(H), text[Min(H)].t, FALSE).val]

\* a match of "^##\s+Atomic Test\s+#\d+\s+-\s+.+$" starting on line i
TitleMatch(text, i) ==
  IF text[i].k = "title"
  THEN Capture(text, i, text[i].t, TRUE)
  ELSE [ok |-> FALSE, val |-> <<>>, last |-> i]

\* the first lines of the non-overlapping matches found from line from on
RECURSIVE TitleMatches(_, _)
TitleMatches(text, from) ==
  LET S == {i \in from..Len(text) : TitleMatch(text, i).ok}
  IN IF S = {} THEN <<>>
     ELSE <<Min(S)>> \o TitleMatches(text, TitleMatch(text, Min(S)).last + 1)

\* a split whose every section runs to the end of the document
split_sections_to_end(text) ==
  LET matches == TitleMatches(text, 1)
  IN [i \in 1..Len(matches) |->
        [title |-> text[matches[i]], section |-> SubSeq(text, matches[i], Len(text))]]

split_atomic_tests_sections(text) ==
  LET matches == TitleMatches(text, 1)
  IN [i \in 1..Len(matches) |->
        LET start == matches[i]
            end == IF i + 1 <= Len(matches) THEN matches[i + 1] ELSE Len(text) + 1
        IN [title |-> text[start], section |-> SubSeq(text, start, end - 1)]]

\* start_regex is "title" (the section heading) or "manual" (the steps heading);
\* end_regexes is the set of kinds of the lines that end the span.
\* end_pos is the line the span ends before.
extract_between(section, start_regex, end_regexes) ==
  LET S == IF start_regex = "title"
           THEN {i \in 1..Len(section) : TitleMatch(section, i).ok}
           ELSE {i \in 1..Len(section) : section[i].k = "manual"}
  IN IF S = {}
     THEN [found |-> FALSE, content |-> <<>>, start |-> 0, end_pos |-> 0]
     ELSE LET start == Min(S)
              search_start == IF start_regex = "title"
                              THEN TitleMatch(section, start).last
                              ELSE start
              e == FirstKind(section, search_start + 1, end_regexes)
              end_pos == IF e = 0 THEN Len(section) + 1 ELSE e
          IN [found |-> TRUE,
              content |-> Strip(SubSeq(section, search_start + 1, end_pos - 1)),
              start |-> start, end_pos |-> end_pos]

parse_supported_platforms(section) ==
  LET S == {i \in 1..Len(section) :
              /\ section[i].k = "plat"
              /\ (section[i].p # <<>> \/ Capture(section, i, section[i].t, FALSE).ok)}
  IN IF S = {} THEN <<>>
     ELSE LET m == section[Min(S)]
              cap == Capture(section, Min(S), m.t, FALSE)
              \* the parts of the captured text split at its commas
              parts == IF m.p # <<>> THEN m.p
                       ELSE IF cap.val = <<>> THEN <<"">>
                       ELSE <<cap.val[1].k>>
              kept == SelectSeq(parts, LAMBDA q : q # "")
          IN [i \in 1..Len(kept) |->
                IF kept[i] \in DOMAIN PLATFORM_REVERSE_MAP
                THEN PLATFORM_REVERSE_MAP[kept[i]]
                ELSE lower(kept[i])]

parse_auto_generated_guid(section) ==
  LET S == {i \in 1..Len(section) : section[i].k = "guid" /\ IsGuid(section[i].n)}
  IN IF S = {} THEN None ELSE Some(section[Min(S)].n)

-----------------------------------------------------------------------------
(* md_to_json.py: the Inputs table *)

\* "\|.+\|": a row with a character between its border pipes
RowLike(l) == l.k \in {"row", "tsep"} /\ (Len(l.c) >= 2 \/ (Len(l.c) = 1 /\ l.c[1] # <<>>))
\* "\|[-\s|]+\|": a row of dashes, blanks and pipes only
IsDashes(cell) == \A i \in 1..Len(cell) : cell[i] \in {"-", "sp"}
SepLike(l) == RowLike(l) /\ \A i \in 1..Len(l.c) : IsDashes(l.c[i])
\* "\|.*\|": any row
AnyRow(l) == l.k \in {"row", "tsep"}

\* line.strip("|").split("|") on a row, each cell stripped: the border pipes go,
\* and with them the empty cells next to a border
RowCells(l) ==
  LET N == {i \in 1..Len(l.c) : l.c[i] # <<>>}
  IN IF N = {} THEN <<<<>>>>
     ELSE [i \in 1..(Max(N) - Min(N) + 1) |-> Trim(l.c[Min(N) + i - 1])]

\* The lines the group "body" holds when the table regex matches at the
\* heading on line i; <<>> when it does not match there.
TableBody(section, i) ==
  LET \* the run of rows and blank lines after the heading
      stop == {j \in (i + 1)..Len(section) :
                 ~(AnyRow(section[j]) \/ ~NonWs(section[j]))}
      last == IF stop = {} THEN Len(section) ELSE Min(stop) - 1
      rows == SelectSeq([j \in 1..(last - i) |-> section[i + j]], LAMBDA l : AnyRow(l))
      \* the rows of dashes right after the header row
      notSep == {j \in 2..Len(rows) : ~SepLike(rows[j])}
      q == IF notSep = {} THEN Len(rows) - 1 ELSE Min(notSep) - 2
      \* the separator takes as many of them as leave a row for the body
      taken == IF q = Len(rows) - 1 THEN q - 1 ELSE q
  IN IF Len(rows) >= 3 /\ RowLike(rows[1]) /\ taken >= 1
     THEN SubSeq(rows, taken + 2, Len(rows))
     ELSE <<>>

\* args[name] = {...}: a later row of the same name replaces the earlier one in place
RECURSIVE PutArg(_, _)
PutArg(args, item) ==
  IF args = <<>> THEN <<item>>
  ELSE IF Head(args).arg_name = item.arg_name THEN <<item>> \o Tail(args)
  ELSE <<Head(args)>> \o PutArg(Tail(args), item)

RECURSIVE RowsToArgs(_, _)
RowsToArgs(body, args) ==
  IF body = <<>> THEN args
  ELSE LET cells == RowCells(Head(body))
       IN IF Len(cells) < 4 THEN RowsToArgs(Tail(body), args)
          ELSE RowsToArgs(Tail(body),
                 PutArg(args,
                   [arg_name |-> Str(unescape(cells[1])),
                    description |-> Val(Str(unescape(cells[2]))),
                    type |-> Val(Str(unescape(cells[3]))),
                    default |-> IF unescape(cells[4]) # <<>>
                                THEN Val(Str(unescape(cells[4]))) ELSE Null]))

\* the mapping name -> {description, type, default}, in insertion order
parse_inputs_table(section) ==
  LET S == {i \in 1..Len(section) :
              section[i].k = "inputs" /\ TableBody(section, i) # <<>>}
  IN IF S = {} THEN <<>> ELSE RowsToArgs(TableBody(section, Min(S)), <<>>)

-----------------------------------------------------------------------------
(* md_to_json.py: fenced code blocks, executor, dependencies *)

NoBlock == [found |-> FALSE, language |-> "", content |-> <<>>]

\* after_index is the first line that lies wholly after the position
parse_next_code_block(after_index, section) ==
  LET m == FirstKind(section, after_index, {"fence"})
      m_end == IF m = 0 THEN 0 ELSE FirstKind(section, m + 1, {"fence"})
  IN IF m = 0 \/ m_end = 0 THEN NoBlock
     ELSE [found |-> TRUE, language |-> section[m].n,
           content |-> unescapeStr(Strip(SubSeq(section, m + 1, m_end - 1)))]

\* exec_name.lower() == "cmd"
IsCmd(n) == n \in {"cmd", "CMD", "Cmd"}

parse_executor_block(section) ==
  LET manual_heading == FirstKind(section, 1, {"manual"})
      cmd_heading == FirstKind(section, 1, {"attack"})
  IN IF manual_heading # 0
     THEN [ok |-> TRUE, err |-> "",
           executor |->
             [name |-> "manual",
              elevation_required |-> section[manual_heading].e,
              key |-> "steps",
              body |-> extract_between(section, "manual", Head4 \cup Head2).content,
              cleanup_command |-> None]]
     ELSE IF cmd_heading = 0
     THEN [ok |-> FALSE, err |-> "Executor heading not found in test section.",
           executor |-> NoExecutor]
     ELSE LET command_block == parse_next_code_block(cmd_heading + 1, section)
              cleanup_heading == FirstKind(section, cmd_heading + 1, {"cleanup"})
              cleanup_block == IF cleanup_heading = 0 THEN NoBlock
                               ELSE parse_next_code_block(cleanup_heading, section)
              exec_name == IF IsCmd(section[cmd_heading].n) THEN "command_prompt"
                           ELSE section[cmd_heading].n
          IN IF ~command_block.found
             THEN [ok |-> FALSE,
                   err |-> "Command code block not found after executor heading.",
                   executor |-> NoExecutor]
             ELSE [ok |-> TRUE, err |-> "",
                   executor |->
                     [name |-> exec_name,
                      elevation_required |-> section[cmd_heading].e,
                      key |-> "command",
                      body |-> command_block.content,
                      cleanup_command |->
                        IF cleanup_block.found /\ cleanup_block.content # <<>>
                        THEN Some(cleanup_block.content) ELSE None]]

\* one pass of the loop "while True" from position pos with the list deps
RECURSIVE DepScan(_, _, _)
DepScan(section, pos, deps) ==
  LET D == {i \in pos..Len(section) :
              section[i].k = "desc" /\ Capture(section, i, section[i].t, FALSE).ok}
  IN IF pos > Len(section) \/ D = {} THEN deps
     ELSE LET desc_abs_start == Min(D)
              desc_text == Capture(section, desc_abs_start, section[desc_abs_start].t, FALSE).val
              m_check == FirstKind(section, desc_abs_start, {"check"})
              check_block == parse_next_code_block(m_check + 1, section)
              m_get == FirstKind(section, m_check + 1, {"get"})
              get_block == IF m_get = 0 THEN NoBlock
                           ELSE parse_next_code_block(m_get + 1, section)
              advance_from == IF m_get # 0 /\ get_block.found THEN m_get ELSE m_check
          IN IF m_check = 0 THEN deps
             ELSE DepScan(section, advance_from + 1,
                    Append(deps,
                      [description |-> unescapeStr(desc_text),
                       prereq_command |-> IF check_block.found THEN check_block.content
                                          ELSE <<>>,
                       get_prereq_command |-> IF get_block.found
                                              THEN Val(get_block.content) ELSE Null]))

\* a scan that records the test's own executor as the override when the
\* section has no Dependencies heading
parse_dependencies_inherit(section, test_executor_name) ==
  LET dep_heading == FirstKind(section, 1, {"deps"})
  IN IF dep_heading = 0
     THEN [dependency_executor_name |-> Some(test_executor_name), deps |-> <<>>]
     ELSE [dependency_executor_name |->
             IF section[dep_heading].n # test_executor_name
             THEN Some(section[dep_heading].n) ELSE None,
           deps |-> DepScan(section, dep_heading + 1, <<>>)]

parse_dependencies(section, test_executor_name) ==
  LET dep_heading == FirstKind(section, 1, {"deps"})
  IN IF dep_heading = 0
     THEN [dependency_executor_name |-> None, deps |-> <<>>]
     ELSE [dependency_executor_name |->
             IF section[dep_heading].n # test_executor_name
             THEN Some(section[dep_heading].n) ELSE None,
           deps |-> DepScan(section, dep_heading + 1, <<>>)]

parse_test_section(title_line, section) ==
  LET t == title_line.t
      name == IF Len(t) >= 2 /\ t[1] = "sp" THEN Str(Tail(t))
              ELSE <<LN("other", "Unknown")>>
      description == extract_between(section, "title", {"plat"} \cup Head2 \cup Head4).content
      input_arguments == parse_inputs_table(section)
      ex == parse_executor_block(section)
      dp == parse_dependencies(section, ex.executor.name)
  IN IF ~ex.ok THEN [ok |-> FALSE, err |-> ex.err, test |-> NoTest]
     ELSE [ok |-> TRUE, err |-> "",
           test |->
             [name |-> name,
              description |-> description,
              supported_platforms |-> parse_supported_platforms(section),
              executor |-> ex.executor,
              input_arguments |-> [form |-> "map", items |-> input_arguments],
              dependencies |-> IF dp.deps # <<>> THEN Some(dp.deps) ELSE None,
              dependency_executor_name |-> dp.dependency_executor_name,
              auto_generated_guid |-> parse_auto_generated_guid(section)]]

\* a parse that leaves out the sections that raise and keeps the others
parse_skipping_failed(md_text) ==
  LET header == parse_technique_header(md_text)
      sections == split_atomic_tests_sections(md_text)
      parsed == [i \in 1..Len(sections) |->
                   parse_test_section(sections[i].title, sections[i].section)]
      kept == SelectSeq(parsed, LAMBDA r : r.ok)
  IN IF ~header.ok
     THEN [ok |-> FALSE,
           err |-> "Unable to find technique header '# Txxxx - Name' in markdown.",
           technique |-> NoTechnique]
     ELSE [ok |-> TRUE, err |-> "",
           technique |->
             [attack_technique |-> header.attack_technique,
              display_name |-> header.display_name,
              atomic_tests |-> [i \in 1..Len(kept) |-> kept[i].test]]]

parse_markdown_to_technique(md_text) ==
  LET header == parse_technique_header(md_text)
      sections == split_atomic_tests_sections(md_text)
      parsed == [i \in 1..Len(sections) |->
                   parse_test_section(sections[i].title, sections[i].section)]
      bad == {i \in 1..Len(sections) : ~parsed[i].ok}
  IN IF ~header.ok
     THEN [ok |-> FALSE,
           err |-> "Unable to find technique header '# Txxxx - Name' in markdown.",
           technique |-> NoTechnique]
     ELSE IF bad # {}
     THEN [ok |-> FALSE, err |-> parsed[Min(bad)].err, technique |-> NoTechnique]
     ELSE [ok |-> TRUE, err |-> "",
           technique |->
             [attack_technique |-> header.attack_technique,
              display_name |-> header.display_name,
              atomic_tests |-> [i \in 1..Len(sections) |-> parsed[i].test]]]

-----------------------------------------------------------------------------
(* md_to_json.py: the post-processors *)

\* a reshaping that empties a list it is given
RestructArgsListEmptied(t) ==
  [t EXCEPT !.input_arguments =
     [form |-> "list", items |-> IF @.form = "list" THEN <<>> ELSE @.items]]

\* one test's input_arguments: a mapping becomes the list of its items, each
\* carrying its name; None and {} become []; a list stays
RestructArgsOfTest(t) ==
  IF t.input_arguments.form = "list" THEN t
  ELSE [t EXCEPT !.input_arguments = [form |-> "list", items |-> @.items]]

restructure_input_arguments_in_technique(technique) ==
  [technique EXCEPT !.atomic_tests =
     [i \in 1..Len(@) |-> RestructArgsOfTest(@[i])]]

\* a unification that moves "steps" only
RestructExecutorStepsOnly(t) ==
  IF t.executor.key = "steps"
  THEN [t EXCEPT !.executor.key = "procedure"]
  ELSE t

\* one test's executor: "steps" or "command" moves to "procedure"
RestructExecutorOfTest(t) ==
  IF t.executor.key \in {"steps", "command"}
  THEN [t EXCEPT !.executor.key = "procedure"]
  ELSE t

restructure_executor_in_technique(technique) ==
  [technique EXCEPT !.atomic_tests =
     [i \in 1..Len(@) |-> RestructExecutorOfTest(@[i])]]

-----------------------------------------------------------------------------
(* json_to_md.py: the renderer *)

get_language(executor_name) ==
  IF executor_name = "command_prompt" THEN "cmd"
  ELSE IF executor_name = "manual" THEN ""
  ELSE executor_name

\* str.capitalize on the platform tokens objects carry
capitalize(s) ==
  CASE s \in {"windows", "Windows", "WINDOWS"} -> "Windows"
    [] s \in {"linux", "Linux", "LINUX"} -> "Linux"
    [] s = "iaas:aws" -> "Iaas:aws"
    [] s \in {"aws", "AWS"} -> "Aws"
    [] OTHER -> s

format_supported_platforms(platforms) ==
  [i \in 1..Len(platforms) |->
     IF platforms[i] = "macos" THEN "macOS" ELSE capitalize(platforms[i])]

\* a value of a key that holds one line of text, as that line's characters
OneLine(v) == IF v = <<>> THEN <<>> ELSE v[1].t

escape_table_cell(value) ==
  IF value.st # "val" THEN <<>>
  ELSE [i \in 1..Len(OneLine(value.v)) |->
          IF OneLine(value.v)[i] = "bs" THEN "e92" ELSE OneLine(value.v)[i]]

\* str.rstrip on a sequence of lines
RStripLines(s) ==
  LET N == {i \in 1..Len(s) : NonWs(s[i])}
  IN IF N = {} THEN <<>>
     ELSE [i \in 1..Max(N) |-> IF i = Max(N) THEN RTrimLine(s[i]) ELSE s[i]]

\* the lines of str.strip() of a value, appended as one list entry: the empty
\* string is one empty line
StripLines(v) == IF Strip(v) = <<>> THEN <<Blank>> ELSE Strip(v)

HeaderRow ==
  [L("row") EXCEPT !.c = <<<<"sp", "Name", "sp">>, <<"sp", "Description", "sp">>,
                           <<"sp", "Type", "sp">>, <<"sp", "Default Value", "sp">>>>]
SeparatorRow ==
  [L("tsep") EXCEPT !.c = <<<<"-">>, <<"-">>, <<"-">>, <<"-">>>>]

\* input_arguments is a list, or missing, None or empty; a mapping that holds a
\* name is not among the objects rendered (arg.get fails on its keys)
render_inputs_table(input_arguments) ==
  IF input_arguments.form # "list" \/ input_arguments.items = <<>> THEN <<>>
  ELSE <<L("inputs"), HeaderRow, SeparatorRow>> \o
       [i \in 1..Len(input_arguments.items) |->
          LET arg == input_arguments.items[i]
          IN [L("row") EXCEPT !.c =
                <<<<"sp">> \o escape_table_cell(Val(arg.arg_name)) \o <<"sp">>,
                  <<"sp">> \o escape_table_cell(arg.description) \o <<"sp">>,
                  <<"sp">> \o escape_table_cell(arg.type) \o <<"sp">>,
                  <<"sp">> \o escape_table_cell(arg.default)>>]]

render_executor_block(executor) ==
  LET name == executor.name
      elev == executor.elevation_required
      procedure == IF executor.key = "procedure" THEN executor.body ELSE <<>>
      cleanup == executor.cleanup_command
      lang == get_language(name)
  IN IF name = "manual"
     THEN <<LNE("manual", "", elev), Blank>> \o StripLines(procedure)
     ELSE <<LNE("attack", name, elev), Blank, LN("fence", lang)>>
          \o StripLines(procedure) \o <<LN("fence", "")>>
          \o (IF cleanup # None /\ cleanup[1] # <<>>
              THEN <<Blank, L("cleanup"), LN("fence", lang)>>
                   \o StripLines(cleanup[1]) \o <<LN("fence", "")>>
              ELSE <<>>)

RECURSIVE RenderDeps(_, _)
RenderDeps(dependencies, lang) ==
  IF dependencies = <<>> THEN <<>>
  ELSE LET dep == Head(dependencies)
           get_prereq == dep.get_prereq_command
       IN <<LT("desc", <<"sp">> \o OneLine(Strip(dep.description))), L("check"),
            LN("fence", lang)>>
          \o StripLines(dep.prereq_command) \o <<LN("fence", "")>>
          \o (IF get_prereq.st = "val" /\ get_prereq.v # <<>>
              THEN <<L("get"), LN("fence", lang)>> \o StripLines(get_prereq.v)
                   \o <<LN("fence", "")>>
              ELSE <<>>)
          \o RenderDeps(Tail(dependencies), lang)

render_dependencies(dependencies, executor_name, dep_executor_name) ==
  IF dependencies = None \/ dependencies[1] = <<>> THEN <<>>
  ELSE LET exec_to_use == IF dep_executor_name # None /\ dep_executor_name[1] # ""
                          THEN dep_executor_name[1] ELSE executor_name
       IN <<LN("deps", exec_to_use)>>
          \o RenderDeps(dependencies[1], get_language(exec_to_use))

\* the block of one test
RenderTest(test) ==
  LET desc == Strip(test.description)
      plats == test.supported_platforms
      inputs_section == render_inputs_table(test.input_arguments)
      dep_block == render_dependencies(test.dependencies, test.executor.name,
                                       test.dependency_executor_name)
  IN <<LN("other", "<br/>"), Blank, LT("title", <<"sp">> \o OneLine(test.name))>>
     \o desc \o <<Blank>>
     \o <<[L("plat") EXCEPT !.p = format_supported_platforms(plats), !.t = <<"sp">>]>>
     \o <<Blank>>
     \o (IF test.auto_generated_guid # None /\ test.auto_generated_guid[1] # ""
         THEN <<LN("guid", test.auto_generated_guid[1]), Blank>> ELSE <<>>)
     \o (IF inputs_section # <<>> THEN RStripLines(inputs_section) \o <<Blank>>
         ELSE <<>>)
     \o RStripLines(render_executor_block(test.executor)) \o <<Blank>>
     \o (IF dep_block # <<>> THEN RStripLines(dep_block) \o <<Blank>> ELSE <<>>)
     \o <<LN("other", "<br/>")>>

RECURSIVE RenderTests(_)
RenderTests(tests) ==
  IF tests = <<>> THEN <<>> ELSE RenderTest(Head(tests)) \o RenderTests(Tail(tests))

render_atomic_markdown(o) ==
  LET attack_technique == o.attack_technique
      atomic_tests == o.atomic_tests
      out == <<[L("h1") EXCEPT !.n = attack_technique,
                               !.t = <<"sp">> \o OneLine(o.display_name)]>>
             \o (IF attack_technique # ""
                 THEN <<LN("h2", "[Description from ATT&CK]"),
                        LN("other", "<blockquote>"), Blank,
                        LN("other", "</blockquote>")>>
                 ELSE <<>>)
             \o <<Blank, LN("h2", "Atomic Tests"), Blank>>
             \o [i \in 1..Len(atomic_tests) |-> LN("other", "- [Atomic Test]")]
             \o <<Blank>>
             \o RenderTests(atomic_tests)
  IN RStripLines(out)

-----------------------------------------------------------------------------
(* The documents and objects the programs are run on *)

\* at most MaxTests tests in a rendered object and in a document of SmallDocs
MaxTests == 2
\* at most MaxFiles documents under the directory of a batch run
MaxFiles == 2

Guid == "12345678-1234-1234-1234-123456789abc"

T(t) == <<TextLine(t)>>
Row(c) == [L("row") EXCEPT !.c = c]
Plat(p) == [L("plat") EXCEPT !.p = p, !.t = <<"sp">>]
Fence(lang) == LN("fence", lang)
Close == LN("fence", "")

\* sequences of at most n elements of S
RECURSIVE SeqsUpTo(_, _)
SeqsUpTo(S, n) ==
  IF n = 0 THEN {<<>>}
  ELSE LET R == SeqsUpTo(S, n - 1)
       IN R \cup {Append(q, x) : q \in {r \in R : Len(r) = n - 1}, x \in S}

(* objects for json_to_md.py *)

ObjExecutors ==
  { [name |-> "manual", elevation_required |-> FALSE, key |-> "procedure",
     body |-> T(<<"a">>), cleanup_command |-> None],
    [name |-> "bash", elevation_required |-> FALSE, key |-> "procedure",
     body |-> T(<<"a", "sp", "b">>), cleanup_command |-> None],
    [name |-> "command_prompt", elevation_required |-> TRUE, key |-> "procedure",
     body |-> T(<<"a">>), cleanup_command |-> Some(T(<<"b">>))] }

ObjArg ==
  [arg_name |-> T(<<"a">>), description |-> Val(T(<<"a", "bs", "b">>)),
   type |-> Val(T(<<"b">>)), default |-> Val(T(<<"a">>))]

ObjDep ==
  [description |-> T(<<"a">>), prereq_command |-> T(<<"b">>),
   get_prereq_command |-> Val(T(<<"a">>))]

ObjExtras ==
  { [input_arguments |-> [form |-> "list", items |-> <<>>], dependencies |-> None,
     dependency_executor_name |-> None, auto_generated_guid |-> None],
    [input_arguments |-> [form |-> "list", items |-> <<ObjArg>>], dependencies |-> None,
     dependency_executor_name |-> None, auto_generated_guid |-> Some(Guid)],
    [input_arguments |-> [form |-> "list", items |-> <<>>],
     dependencies |-> Some(<<ObjDep>>),
     dependency_executor_name |-> Some("powershell"), auto_generated_guid |-> None] }

ObjTests ==
  { [name |-> T(<<"a">>), description |-> T(<<"sp", "b">>),
     supported_platforms |-> <<"windows", "macos">>,
     executor |-> ex,
     input_arguments |-> x.input_arguments,
     dependencies |-> x.dependencies,
     dependency_executor_name |-> x.dependency_executor_name,
     auto_generated_guid |-> x.auto_generated_guid] :
    ex \in ObjExecutors, x \in ObjExtras }

Techniques ==
  { [attack_technique |-> "T1059", display_name |-> T(<<"a">>), atomic_tests |-> ts] :
    ts \in SeqsUpTo(ObjTests, MaxTests) }

(* documents for md_to_json.py *)

Headers ==
  { <<LT("h1", <<"sp", "a">>)>>, <<Blank, LT("h1", <<"sp", "a", "sp">>)>>,
    <<LT("h1", <<"sp">>)>>, <<LT("h1", <<>>)>>, <<>> }

HeaderIds == {"T1059", "t1059.001", "TXXX"}

Title(c) == LT("title", <<"sp", c>>)

SmallSections ==
  UNION { { <<Title(c), TextLine(<<"a">>), Blank, Plat(<<"Windows">>), Blank,
              LNE("manual", "", FALSE), Blank, TextLine(<<c>>), Blank>>,
            <<Title(c), Plat(<<"Linux">>), LNE("attack", "bash", FALSE),
              Fence("bash"), TextLine(<<c>>), Close>>,
            <<Title(c), TextLine(<<"a">>), Plat(<<"Linux">>)>> } : c \in {"a", "b"} }

WithId(h, id) == [i \in 1..Len(h) |-> IF h[i].k = "h1" THEN [h[i] EXCEPT !.n = id] ELSE h[i]]

RECURSIVE Concat(_)
Concat(ss) == IF ss = <<>> THEN <<>> ELSE Head(ss) \o Concat(Tail(ss))

SmallDocs ==
  { WithId(h, id) \o Concat(ss) :
      h \in Headers, id \in HeaderIds, ss \in SeqsUpTo(SmallSections, MaxTests) }


(* one section with every combination of its parts *)

DescParts == { <<>>, <<TextLine(<<"a">>), Blank>> }

PlatParts == { <<>>, <<Plat(<<"Windows", "macOS">>), Blank>>, <<Plat(<<>>), Blank>> }

GuidParts == { <<>>, <<LN("guid", Guid), Blank>> }

\* | size | File size | string | 100MB|
RowSize ==
  Row(<<<<"sp", "size", "sp">>, <<"sp", "File", "sp", "size", "sp">>,
        <<"sp", "string", "sp">>, <<"sp", "100MB">>>>)
\* | a | a&#92;b | b | |
RowNoDefault ==
  Row(<<<<"sp", "a", "sp">>, <<"sp", "a", "e92", "b", "sp">>, <<"sp", "b", "sp">>, <<"sp">>>>)
\* | size | b | a | a|
RowSizeAgain ==
  Row(<<<<"sp", "size", "sp">>, <<"sp", "b", "sp">>, <<"sp", "a", "sp">>, <<"sp", "a">>>>)
\* | b | a | a ||
RowBareDefault ==
  Row(<<<<"sp", "b", "sp">>, <<"sp", "a", "sp">>, <<"sp", "a", "sp">>, <<>>>>)
\* | a | b |
RowShort == Row(<<<<"sp", "a", "sp">>, <<"sp", "b", "sp">>>>)

DataRows == {RowSize, RowNoDefault, RowSizeAgain, RowBareDefault, RowShort}

InputParts ==
  { <<>>, <<L("inputs"), Blank>>, <<L("inputs"), HeaderRow, SeparatorRow, Blank>>,
    <<L("inputs"), HeaderRow, RowSize, Blank>> }
  \cup { <<L("inputs"), HeaderRow, SeparatorRow>> \o rows \o <<Blank>> :
           rows \in SeqsUpTo(DataRows, 2) \ {<<>>} }

Steps == <<Blank, TextLine(<<"a">>), Blank>>
Command == <<Fence("bash"), TextLine(<<"a">>), Close, Blank>>

ExecParts ==
  { <<>>,
    <<LNE("manual", "", FALSE)>> \o Steps,
    <<LNE("manual", "", TRUE), Blank, TextLine(<<"sp", "a", "e92">>), TextLine(<<"b">>), Blank>>,
    <<LNE("attack", "bash", FALSE), Blank>> \o Command,
    <<LNE("attack", "cmd", TRUE), Fence("cmd"), TextLine(<<"a", "e92">>), TextLine(<<"b", "sp">>), Close>>,
    <<LNE("attack", "bash", FALSE), Fence("bash"), TextLine(<<"a">>)>>,
    <<LNE("attack", "bash", FALSE), TextLine(<<"a">>)>>,
    <<LNE("attack", "bash", FALSE)>> \o Command
       \o <<L("cleanup"), Fence("bash"), TextLine(<<"b">>), Close, Blank>>,
    <<LNE("attack", "bash", FALSE)>> \o Command
       \o <<L("cleanup"), Fence("bash"), TextLine(<<"b">>)>>,
    <<LNE("attack", "bash", FALSE)>> \o Command \o <<L("cleanup"), Blank>>,
    <<LNE("attack", "bash", FALSE)>> \o Command \o <<LNE("manual", "", FALSE)>> \o Steps,
    <<LNE("manual", "", FALSE)>> \o Steps \o <<LNE("attack", "bash", FALSE)>> \o Command }

Triple(d, c, g) ==
  <<LT("desc", <<"sp", d>>), L("check"), Fence("bash"), TextLine(<<c>>), Close,
    L("get"), Fence("bash"), TextLine(<<g>>), Close>>
Pair(d, c) ==
  <<LT("desc", <<"sp", d>>), L("check"), Fence("bash"), TextLine(<<c>>), Close>>

DepBodies ==
  { <<>>,
    Triple("a", "a", "b"),
    Pair("a", "a"),
    Pair("a", "a") \o Triple("b", "b", "a"),
    Triple("a", "a", "b") \o Triple("b", "b", "a"),
    Triple("a", "a", "b") \o Pair("b", "b"),
    <<LT("desc", <<"sp", "a">>)>>,
    Triple("a", "a", "b") \o <<LT("desc", <<"sp", "b">>)>>,
    <<LT("desc", <<"sp", "b">>)>> \o Triple("a", "a", "b"),
    <<LT("desc", <<"sp", "a">>), L("check"), Fence("bash"), TextLine(<<"a">>)>>,
    Pair("a", "a") \o <<L("get"), Fence("bash"), TextLine(<<"b">>)>>,
    <<LT("desc", <<"sp">>), L("check"), Fence("bash"), TextLine(<<"a">>), Close>> }

DepParts ==
  { <<>> } \cup { <<LN("deps", n)>> \o b \o <<Blank>> :
                    n \in {"bash", "cmd", "powershell"}, b \in DepBodies }

\* the documents of a directory: one that converts, one with no header,
\* one whose second test has no executor heading
BatchDocs ==
  LET good == <<Title("a"), Plat(<<"Linux">>), LNE("attack", "bash", FALSE),
                Fence("bash"), TextLine(<<"a">>), Close>>
      bad == <<Title("b"), TextLine(<<"a">>), Plat(<<"Linux">>)>>
      h == <<[LT("h1", <<"sp", "a">>) EXCEPT !.n = "T1059"]>>
  IN { h \o good, good, h \o good \o bad }

RichHeader == <<[LT("h1", <<"sp", "a">>) EXCEPT !.n = "T1059"], Blank>>

RichDocs ==
  { RichHeader \o <<Title("a")>> \o d \o p \o g \o i \o e :
      d \in DescParts, p \in PlatParts, g \in GuidParts, i \in InputParts,
      e \in { <<>>, <<LNE("manual", "", FALSE)>> \o Steps,
              <<LNE("attack", "bash", FALSE), Blank>> \o Command } }
  \cup
  { RichHeader \o <<Title("a")>> \o f \o e \o dp \o <<LN("other", "<br/>")>> :
      f \in { <<>>, <<TextLine(<<"a">>), Blank, Plat(<<"Windows">>), Blank, LN("guid", Guid), Blank>> },
      e \in ExecParts, dp \in DepParts }

-----------------------------------------------------------------------------
(* The programs: json_to_md.py's main, then md_to_json.py's main *)

Flags == [restruct_args : BOOLEAN, restruct_executor : BOOLEAN,
          schema : BOOLEAN, stdout : BOOLEAN]

NoFlags == [restruct_args |-> FALSE, restruct_executor |-> FALSE,
            schema |-> FALSE, stdout |-> FALSE]

NoResult == [ok |-> FALSE, err |-> "", technique |-> NoTechnique]

\* a run in progress has no exit status yet
Running == None

Init ==
  /\ idx = 0
  /\ cur = NoResult
  /\ results = <<>>
  /\ outputs = {}
  /\ status = Running
  /\ \/ \* an object is rendered and the document converted back
        /\ mode = "input"
        /\ obj \in Techniques
        /\ files = <<>>
        /\ flags \in {f \in Flags : f.restruct_args = f.restruct_executor
                                     /\ ~f.schema /\ ~f.stdout}
        /\ pc = "render"
     \/ \* --input on a document
        /\ mode = "input"
        /\ obj = NoTechnique
        /\ \/ files \in {<<d>> : d \in RichDocs} /\ flags = NoFlags
           \/ files \in {<<d>> : d \in SmallDocs} /\ flags \in {f \in Flags : f.schema}
        /\ pc = "main"
     \/ \* --dir on a directory of documents
        /\ mode = "dir"
        /\ obj = NoTechnique
        /\ files \in SeqsUpTo(BatchDocs, MaxFiles)
        /\ flags \in {f \in Flags : ~f.stdout}
        /\ pc = "main"


\* json_to_md.py main: the object is rendered and written as the document
json_to_md_main ==
  /\ pc = "render"
  /\ files' = <<render_atomic_markdown(obj)>>
  /\ pc' = "main"
  /\ UNCHANGED <<mode, obj, flags, idx, cur, results, outputs, status>>

\* md_to_json.py main: the flags are attached to process_file; --input calls
\* process_file, --dir calls process_directory, which walks the documents
main ==
  /\ pc = "main"
  /\ IF mode = "dir" /\ files = <<>>
     THEN pc' = "report" /\ idx' = idx
     ELSE pc' = "parse" /\ idx' = 1
  /\ UNCHANGED <<mode, obj, files, flags, cur, results, outputs, status>>

\* process_file: read_text and parse_markdown_to_technique
Parse ==
  /\ pc = "parse"
  /\ cur' = parse_markdown_to_technique(files[idx])
  /\ pc' = IF cur'.ok THEN "restruct_args" ELSE "except"
  /\ UNCHANGED <<mode, obj, files, flags, idx, results, outputs, status>>

\* process_file: the optional argument reshaping
RestructArgs ==
  /\ pc = "restruct_args"
  /\ cur' = IF flags.restruct_args
            THEN [cur EXCEPT !.technique = restructure_input_arguments_in_technique(@)]
            ELSE cur
  /\ pc' = "restruct_executor"
  /\ UNCHANGED <<mode, obj, files, flags, idx, results, outputs, status>>

\* process_file: the optional executor field unification
RestructExecutor ==
  /\ pc = "restruct_executor"
  /\ cur' = IF flags.restruct_executor
            THEN [cur EXCEPT !.technique = restructure_executor_in_technique(@)]
            ELSE cur
  /\ pc' = "validate"
  /\ UNCHANGED <<mode, obj, files, flags, idx, results, outputs, status>>

\* a validation whose rejection does not stop the conversion
ValidateLenient ==
  /\ pc = "validate"
  /\ \E accepts \in BOOLEAN :
       /\ cur' = IF flags.schema /\ ~accepts
                 THEN [cur EXCEPT !.ok = FALSE, !.err = "JSON Schema validation failed"]
                 ELSE cur
       /\ pc' = "output"
  /\ UNCHANGED <<mode, obj, files, flags, idx, results, outputs, status>>

\* process_file: validate_with_json_schema, when a schema is given; the
\* schema is the caller's, so it may accept or reject the object
Validate ==
  /\ pc = "validate"
  /\ \E accepts \in BOOLEAN :
       IF flags.schema /\ ~accepts
       THEN /\ cur' = [cur EXCEPT !.ok = FALSE, !.err = "JSON Schema validation failed"]
            /\ pc' = "except"
       ELSE /\ cur' = cur
            /\ pc' = "output"
  /\ UNCHANGED <<mode, obj, files, flags, idx, results, outputs, status>>

\* the loop of process_directory moves to the next document, or main reports
NextPc == IF idx < Len(files) THEN "parse" ELSE "report"
NextIdx == IF idx < Len(files) THEN idx + 1 ELSE idx

\* process_file: the object is printed or written; then main returns 0, or
\* process_directory records (md_path, produced)
Output ==
  /\ pc = "output"
  /\ LET to_stdout == flags.stdout /\ mode = "input"
     IN /\ outputs' = outputs \cup
             {[path |-> IF to_stdout THEN None ELSE Some(idx), data |-> cur.technique]}
        /\ IF mode = "input"
           THEN /\ status' = Some(0)
                /\ pc' = "done"
                /\ UNCHANGED <<idx, results>>
           ELSE /\ results' = Append(results, [md |-> idx, produced |-> Some(idx)])
                /\ pc' = NextPc
                /\ idx' = NextIdx
                /\ status' = status
  /\ UNCHANGED <<mode, obj, files, flags, cur>>

\* a handler that lets the failure of one document end the walk
ExceptAborts ==
  /\ pc = "except"
  /\ IF mode = "input"
     THEN /\ status' = Some(1)
          /\ pc' = "done"
          /\ UNCHANGED <<idx, results>>
     ELSE /\ results' = Append(results, [md |-> idx, produced |-> None])
          /\ pc' = "report"
          /\ idx' = idx
          /\ status' = status
  /\ UNCHANGED <<mode, obj, files, flags, cur, outputs>>

\* the handlers "except Exception": main returns 1, or process_directory
\* records (md_path, None) and goes on
Except ==
  /\ pc = "except"
  /\ IF mode = "input"
     THEN /\ status' = Some(1)
          /\ pc' = "done"
          /\ UNCHANGED <<idx, results>>
     ELSE /\ results' = Append(results, [md |-> idx, produced |-> None])
          /\ pc' = NextPc
          /\ idx' = NextIdx
          /\ status' = status
  /\ UNCHANGED <<mode, obj, files, flags, cur, outputs>>

\* main after process_directory: 1 when some document has no output
Report ==
  /\ pc = "report"
  /\ status' = IF \E i \in 1..Len(results) : results[i].produced = None
               THEN Some(1) ELSE Some(0)
  /\ pc' = "done"
  /\ UNCHANGED <<mode, obj, files, flags, idx, cur, results, outputs>>

Next ==
  \/ json_to_md_main
  \/ main
  \/ Parse
  \/ RestructArgs
  \/ RestructExecutor
  \/ Validate
  \/ Output
  \/ Except
  \/ Report

Spec == Init /\ [][Next]_vars

\* a handler "except Exception" that is entered runs to its end
SpecFair == Spec /\ WF_vars(Except)

-----------------------------------------------------------------------------
(* restructure_input_arguments_in_technique called on objects of every form *)

ObjArgB ==
  [arg_name |-> T(<<"b">>), description |-> Val(T(<<"a">>)),
   type |-> Absent, default |-> Null]

\* input_arguments as a name-keyed mapping, as a list, and missing or None
ArgForms ==
  {[form |-> f, items |-> it] :
     f \in {"map", "list"}, it \in {<<>>, <<ObjArg>>, <<ObjArg, ObjArgB>>}}
  \cup {[form |-> "absent", items |-> <<>>]}

ReshapeTests ==
  { [name |-> T(<<"a">>), description |-> <<>>, supported_platforms |-> <<"linux">>,
     executor |-> [name |-> "bash", elevation_required |-> FALSE, key |-> "command",
                   body |-> T(<<"a">>), cleanup_command |-> None],
     input_arguments |-> ia, dependencies |-> None,
     dependency_executor_name |-> None, auto_generated_guid |-> None] :
    ia \in ArgForms }

ReshapeTechniques ==
  { [attack_technique |-> "T1059", display_name |-> T(<<"a">>), atomic_tests |-> ts] :
    ts \in SeqsUpTo(ReshapeTests, MaxTests) }

InitReshape ==
  /\ mode = "reshape"
  /\ obj \in ReshapeTechniques
  /\ files = <<>>
  /\ flags = [NoFlags EXCEPT !.restruct_args = TRUE]
  /\ idx = 0
  /\ cur = NoResult
  /\ results = <<>>
  /\ outputs = {}
  /\ status = Running
  /\ pc = "reshape"

\* the transform is applied to the object
Reshape ==
  /\ pc = "reshape"
  /\ cur' = [ok |-> TRUE, err |-> "",
             technique |-> restructure_input_arguments_in_technique(obj)]
  /\ pc' = "reshape_again"
  /\ UNCHANGED <<mode, obj, files, flags, idx, results, outputs, status>>

\* the transform is applied to what it returned
ReshapeAgain ==
  /\ pc = "reshape_again"
  /\ cur' = [cur EXCEPT !.technique = restructure_input_arguments_in_technique(@)]
  /\ pc' = "done"
  /\ UNCHANGED <<mode, obj, files, flags, idx, results, outputs, status>>

NextReshape ==
  \/ Reshape
  \/ ReshapeAgain

SpecReshape == InitReshape /\ [][NextReshape]_vars

-----------------------------------------------------------------------------
(* the loop of parse_dependencies, one pass at a time *)

\* at most MaxTriples pieces in a Dependencies block
MaxTriples == 2

\* a triple, a triple with no Get Prereq block, a triple whose description
\* stands on the line after its marker, a Description alone, and a triple
\* whose Get Prereq fence has no end
DepPieces ==
  { Triple("a", "a", "b"),
    Pair("b", "b"),
    <<LT("desc", <<>>), TextLine(<<"b">>)>> \o Tail(Pair("b", "a")),
    <<LT("desc", <<"sp", "a">>)>>,
    Pair("a", "b") \o <<L("get"), Fence("bash"), TextLine(<<"b">>)>> }

DepSections ==
  { <<LN("deps", "bash")>> \o Concat(ps) \o <<Blank>> :
      ps \in SeqsUpTo(DepPieces, MaxTriples) }

\* pos = dep_heading.end(), deps = []
InitDepScan ==
  /\ mode = "dep_scan"
  /\ obj = NoTechnique
  /\ files \in {<<sec>> : sec \in DepSections}
  /\ flags = NoFlags
  /\ idx = 2
  /\ cur = NoResult
  /\ results = <<>>
  /\ outputs = {}
  /\ status = Running
  /\ pc = "dep_scan"

\* a pass that moves the position on only when it consumed a Get Prereq block
DepStepGetOnly ==
  /\ pc = "dep_scan"
  /\ \E D \in {{i \in idx..Len(files[1]) :
                  /\ files[1][i].k = "desc"
                  /\ Capture(files[1], i, files[1][i].t, FALSE).ok}} :
     \E desc_abs_start \in {IF D = {} THEN 0 ELSE Min(D)} :
     \E m_check \in {IF D = {} THEN 0
                     ELSE FirstKind(files[1], desc_abs_start, {"check"})} :
     \E m_get \in {IF m_check = 0 THEN 0
                   ELSE FirstKind(files[1], m_check + 1, {"get"})} :
     \E get_block \in {IF m_get = 0 THEN NoBlock
                       ELSE parse_next_code_block(m_get + 1, files[1])} :
       IF m_check = 0
       THEN /\ pc' = "done"
            /\ UNCHANGED <<idx, results>>
       ELSE /\ pc' = "dep_scan"
            /\ idx' = IF m_get # 0 /\ get_block.found THEN m_get + 1 ELSE idx
            /\ results' = Append(results,
                 [at |-> desc_abs_start,
                  dep |-> [description |-> <<>>, prereq_command |-> <<>>,
                           get_prereq_command |-> Null]])
  /\ UNCHANGED <<mode, obj, files, flags, cur, outputs, status>>

\* one pass of the loop, statement by statement: the Description marker is
\* searched from the position and the Check marker from the Description (a
\* break when either is missing), the two blocks are read, the entry is
\* appended and the position moves past the last marker consumed
DepStep ==
  /\ pc = "dep_scan"
  /\ \E D \in {{i \in idx..Len(files[1]) :
                  /\ files[1][i].k = "desc"
                  /\ Capture(files[1], i, files[1][i].t, FALSE).ok}} :
     \E desc_abs_start \in {IF D = {} THEN 0 ELSE Min(D)} :
     \E m_check \in {IF D = {} THEN 0
                     ELSE FirstKind(files[1], desc_abs_start, {"check"})} :
     \E check_block \in {parse_next_code_block(m_check + 1, files[1])} :
     \E m_get \in {IF m_check = 0 THEN 0
                   ELSE FirstKind(files[1], m_check + 1, {"get"})} :
     \E get_block \in {IF m_get = 0 THEN NoBlock
                       ELSE parse_next_code_block(m_get + 1, files[1])} :
     \E advance_from \in {IF m_get # 0 /\ get_block.found THEN m_get ELSE m_check} :
       IF m_check = 0
       THEN /\ pc' = "done"
            /\ UNCHANGED <<idx, results>>
       ELSE /\ pc' = "dep_scan"
            /\ idx' = advance_from + 1
            /\ results' = Append(results,
                 [at |-> desc_abs_start,
                  dep |-> [description |->
                             unescapeStr(Capture(files[1], desc_abs_start,
                                                 files[1][desc_abs_start].t, FALSE).val),
                           prereq_command |-> IF check_block.found
                                              THEN check_block.content ELSE <<>>,
                           get_prereq_command |-> IF get_block.found
                                                  THEN Val(get_block.content)
                                                  ELSE Null]])
  /\ UNCHANGED <<mode, obj, files, flags, cur, outputs, status>>

NextDepScan == DepStep

\* the loop goes on until it breaks
SpecDepScan == InitDepScan /\ [][NextDepScan]_vars /\ WF_vars(DepStep)

-----------------------------------------------------------------------------
(* The properties *)

\* The canonical form of an object: platform names in lower case and the
\* white space around every free-text field trimmed.
CanonKey(x) == IF x.st = "val" THEN Val(Strip(x.v)) ELSE x
CanonArg(a) ==
  [arg_name |-> Strip(a.arg_name), description |-> CanonKey(a.description),
   type |-> CanonKey(a.type), default |-> CanonKey(a.default)]
CanonDep(d) ==
  [description |-> Strip(d.description), prereq_command |-> Strip(d.prereq_command),
   get_prereq_command |-> CanonKey(d.get_prereq_command)]
CanonTest(t) ==
  [t EXCEPT !.name = Strip(@),
            !.description = Strip(@),
            !.supported_platforms = [i \in 1..Len(@) |-> lower(@[i])],
            !.executor.body = Strip(@),
            !.executor.cleanup_command = IF @ = None THEN None ELSE Some(Strip(@[1])),
            !.input_arguments.items = [i \in 1..Len(@) |-> CanonArg(@[i])],
            !.dependencies = IF @ = None THEN None
                             ELSE Some([i \in 1..Len(@[1]) |-> CanonDep(@[1][i])])]
Canon(technique) ==
  [technique EXCEPT !.display_name = Strip(@),
                    !.atomic_tests = [i \in 1..Len(@) |-> CanonTest(@[i])]]

\* a run that rendered an object, converted the document back with both
\* post-processors on, and ended
RoundTripDone ==
  /\ obj # NoTechnique
  /\ flags.restruct_args /\ flags.restruct_executor
  /\ pc = "done"

\* C1: round-trip law.  When an object has been rendered and the document
\* parsed back (the parser's output brought to the object's field names by the
\* two post-processors), the conversion has succeeded and the object written
\* equals the rendered one, both in canonical form.
C1_RoundTripLaw ==
  RoundTripDone =>
    /\ status = Some(0)
    /\ \A o \in outputs : Canon(o.data) = Canon(obj)

\* the i-th smallest element of a set of numbers
Nth(S, i) == CHOOSE x \in S : Cardinality({y \in S : y < x}) = i - 1

\* the lines of a document that are atomic-test section boundaries
Boundaries(text) == {i \in 1..Len(text) : TitleMatch(text, i).ok}

\* the span of the i-th section: from its boundary line to the line before
\* the next boundary, or to the end of the document
Span(text, i) ==
  LET B == Boundaries(text)
  IN SubSeq(text, Nth(B, i),
            IF i < Cardinality(B) THEN Nth(B, i + 1) - 1 ELSE Len(text))

\* the document being converted has just been parsed without an error
Parsed == pc = "restruct_args"
\* the parser has just raised an error on the document being converted
ParseFailed == pc = "except" /\ cur.err # "JSON Schema validation failed"

Converted(text) ==
  LET t0 == parse_markdown_to_technique(text).technique
      t1 == IF flags.restruct_args
            THEN restructure_input_arguments_in_technique(t0) ELSE t0
  IN IF flags.restruct_executor THEN restructure_executor_in_technique(t1) ELSE t1

NumSections == Cardinality(Boundaries(files[idx]))
SectionAt(i) == Span(files[idx], i)

HasKind(section, K) == FirstKind(section, 1, K) # 0

\* a fence line that starts a block which no later fence line ends: the fence
\* lines of a section pair up in order, so it is the last of an odd number
UnclosedFence(section) ==
  Cardinality({j \in 1..Len(section) : section[j].k = "fence"}) % 2 = 1

\* C4: fence without end.  A document that has parsed has no section with a
\* starting fence that no closing fence follows, wherever the fence stands:
\* such a section raises an error.
C4_FenceWithoutEnd ==
  Parsed => \A i \in 1..NumSections : ~UnclosedFence(SectionAt(i))

\* C5: after a successful parse attack_technique and display_name are both
\* non-empty.
C5_HeaderNonEmpty ==
  Parsed =>
    /\ cur.technique.attack_technique # ""
    /\ cur.technique.display_name # <<>>

\* the section has the manual heading or the command heading
HasExecutorHeading(section) == HasKind(section, {"manual", "attack"})

AllHaveExecutorHeading(text) ==
  \A i \in 1..Cardinality(Boundaries(text)) : HasExecutorHeading(Span(text, i))

ParseErrors ==
  {"Unable to find technique header '# Txxxx - Name' in markdown.",
   "Executor heading not found in test section.",
   "Command code block not found after executor heading."}

\* the document an output was produced from
SourceOf(o) == files[IF o.path = None THEN 1 ELSE o.path[1]]

\* C6: no executor heading.  A document with a section that has neither the
\* manual heading nor the command heading never gets past the parser: the
\* parse raises an error, no object is kept (not one of the other tests
\* either), and nothing is written for the document.  The error is the one of
\* the missing executor heading when the header is found and every section
\* before it parses.
C6_NoExecutorHeading ==
  /\ pc \in {"restruct_args", "restruct_executor", "validate", "output"}
       => AllHaveExecutorHeading(files[idx])
  /\ (ParseFailed /\ ~AllHaveExecutorHeading(files[idx])) =>
       /\ ~cur.ok
       /\ cur.technique = NoTechnique
       /\ cur.err \in ParseErrors
       /\ LET first == Min({i \in 1..NumSections : ~HasExecutorHeading(SectionAt(i))})
          IN (/\ parse_technique_header(files[idx]).ok
              /\ \A i \in 1..(first - 1) :
                   parse_test_section(SectionAt(i)[1], SectionAt(i)).ok)
             => cur.err = "Executor heading not found in test section."
  /\ \A o \in outputs : AllHaveExecutorHeading(SourceOf(o))

\* a document with a header whose first section parses and whose second
\* section has no executor heading has been refused
C6_Witness ==
  /\ ParseFailed
  /\ NumSections = 2
  /\ HasExecutorHeading(SectionAt(1))
  /\ ~HasExecutorHeading(SectionAt(2))
  /\ cur.err = "Executor heading not found in test section."
  /\ cur.technique = NoTechnique

\* the section has a valid executor block: the manual heading, or the command
\* heading with a fenced block after it
ValidExecutorBlock(section) ==
  \/ HasKind(section, {"manual"})
  \/ /\ HasKind(section, {"attack"})
     /\ Cardinality({j \in (FirstKind(section, 1, {"attack"}) + 1)..Len(section) :
                       section[j].k = "fence"}) >= 2

\* C7: soft recovery of optional sections.  A document with a header whose
\* sections all have a valid executor block parses, whichever optional
\* sections are missing; and in the parsed test of a section a missing
\* platforms line gives no platforms, a missing identifier line no guid, a
\* missing Inputs heading an empty input_arguments, a missing Dependencies
\* heading neither dependencies nor dependency_executor_name, and a missing
\* Cleanup heading no cleanup_command.
C7_SoftRecovery ==
  /\ ParseFailed =>
       \/ ~parse_technique_header(files[idx]).ok
       \/ \E i \in 1..NumSections : ~ValidExecutorBlock(SectionAt(i))
  /\ Parsed =>
       \A i \in 1..NumSections :
         LET s == SectionAt(i)
             t == cur.technique.atomic_tests[i]
         IN /\ ~HasKind(s, {"plat"}) => t.supported_platforms = <<>>
            /\ ~HasKind(s, {"guid"}) => t.auto_generated_guid = None
            /\ ~HasKind(s, {"inputs"}) =>
                 t.input_arguments = [form |-> "map", items |-> <<>>]
            /\ ~HasKind(s, {"deps"}) =>
                 t.dependencies = None /\ t.dependency_executor_name = None
            /\ ~HasKind(s, {"cleanup"}) => t.executor.cleanup_command = None

\* a section with a command block and none of the optional sections has parsed
C7_Witness ==
  /\ Parsed
  /\ NumSections = 1
  /\ HasKind(SectionAt(1), {"attack"})
  /\ ~HasKind(SectionAt(1), {"plat", "guid", "inputs", "deps", "cleanup"})
  /\ cur.technique.atomic_tests[1].executor.key = "command"

\* the name the executor heading of a parsed section prints
PrintedExecutor(section, t) ==
  IF t.executor.name = "manual" THEN "manual"
  ELSE section[FirstKind(section, 1, {"attack"})].n

\* C8: dependency executor override.  In the parsed test of a section with a
\* Dependencies heading, dependency_executor_name is the name that heading
\* prints when it differs from the test's executor name, and is missing when
\* the two are the same: when the heading prints the name the executor heading
\* prints (both `cmd`, say) or the name the executor carries.
C8_DependencyOverride ==
  Parsed =>
    \A i \in 1..NumSections :
      LET s == SectionAt(i)
          t == cur.technique.atomic_tests[i]
          printed == s[FirstKind(s, 1, {"deps"})].n
      IN HasKind(s, {"deps"}) =>
           t.dependency_executor_name =
             IF printed \in {PrintedExecutor(s, t), t.executor.name}
             THEN None ELSE Some(printed)

\* C9: idempotence of argument reshaping.  For an object whose tests carry
\* input_arguments as a mapping, an empty mapping, a list or not at all, the
\* transform applied twice gives what the transform applied once gives.
C9_ReshapeIdempotent ==
  /\ (mode = "reshape" /\ pc = "done") =>
       cur.technique = restructure_input_arguments_in_technique(obj)
  /\ restructure_input_arguments_in_technique(
       restructure_input_arguments_in_technique(obj))
     = restructure_input_arguments_in_technique(obj)

\* the transform has been applied twice to an object with a test whose
\* arguments are a mapping of two names and a test whose arguments are a list
C9_Witness ==
  /\ mode = "reshape" /\ pc = "done"
  /\ \E i, j \in 1..Len(obj.atomic_tests) :
       /\ obj.atomic_tests[i].input_arguments.form = "map"
       /\ Len(obj.atomic_tests[i].input_arguments.items) = 2
       /\ cur.technique.atomic_tests[i].input_arguments.form = "list"
       /\ obj.atomic_tests[j].input_arguments.form = "list"
       /\ obj.atomic_tests[j].input_arguments.items # <<>>

\* the rows of the table that stands right after the Inputs heading on line h:
\* the header row, the separator row, then the data rows
DataRowsAfter(section, h) ==
  LET stop == {j \in (h + 3)..Len(section) : section[j].k # "row"}
      last == IF stop = {} THEN Len(section) ELSE Min(stop) - 1
  IN SubSeq(section, h + 3, last)

\* the heading on line h is immediately followed by a well-formed table whose
\* data rows have four cells or more and names of their own
WellFormedTable(section, h) ==
  /\ h + 2 <= Len(section)
  /\ section[h + 1] = HeaderRow
  /\ section[h + 2] = SeparatorRow
  /\ LET rows == DataRowsAfter(section, h)
     IN /\ \A i \in 1..Len(rows) : Len(rows[i].c) >= 4
        /\ \A i, j \in 1..Len(rows) :
             i # j => Trim(rows[i].c[1]) # Trim(rows[j].c[1])

\* the argument a data row stands for: its first four cells, trimmed and
\* decoded, with no default when the fourth is empty
ArgOfRow(row) ==
  [arg_name |-> Str(unescape(row.c[1])),
   description |-> Val(Str(unescape(row.c[2]))),
   type |-> Val(Str(unescape(row.c[3]))),
   default |-> IF AllSp(row.c[4]) THEN Null ELSE Val(Str(unescape(row.c[4])))]

\* C10: Inputs table rows.  In the parsed test of a section whose Inputs
\* heading is immediately followed by a well-formed table, input_arguments
\* holds one argument for every data row, made of the row's first four cells,
\* with no default when the default cell is empty; a section with no such
\* table has an empty input_arguments; and no error of the parser comes from
\* the table.
C10_InputsTableRows ==
  /\ Parsed =>
       \A i \in 1..NumSections :
         LET s == SectionAt(i)
             h == FirstKind(s, 1, {"inputs"})
             args == cur.technique.atomic_tests[i].input_arguments
         IN /\ args.form = "map"
            /\ IF h # 0 /\ WellFormedTable(s, h)
               THEN args.items = [r \in 1..Len(DataRowsAfter(s, h)) |->
                                    ArgOfRow(DataRowsAfter(s, h)[r])]
               ELSE h = 0 => args.items = <<>>
  /\ ParseFailed => cur.err \in ParseErrors

\* C11: executor branch selection.  In the parsed test of a section that has
\* both the manual heading and the command heading, the executor is of the
\* variant whose heading stands first in the section: a command executor when
\* the command heading comes before the manual heading, a manual one otherwise.
C11_ExecutorBranchByPosition ==
  Parsed =>
    \A i \in 1..NumSections :
      LET s == SectionAt(i)
          executor == cur.technique.atomic_tests[i].executor
      IN (HasKind(s, {"manual"}) /\ HasKind(s, {"attack"})) =>
           IF FirstKind(s, 1, {"attack"}) < FirstKind(s, 1, {"manual"})
           THEN executor.key = "command" /\ executor.name # "manual"
           ELSE executor.key = "steps" /\ executor.name = "manual"

\* the lines of a section that hold a Description marker after the
\* Dependencies heading
DescLines(section) ==
  {j \in (FirstKind(section, 1, {"deps"}) + 1)..Len(section) : section[j].k = "desc"}

\* the k-th triple of a section: from its Description marker to the line
\* before the next Description marker, or to the end of the section
TripleAt(section, k) ==
  LET D == DescLines(section)
  IN SubSeq(section, Nth(D, k),
            IF k < Cardinality(D) THEN Nth(D, k + 1) - 1 ELSE Len(section))

NumKind(s, kind) == Cardinality({j \in 1..Len(s) : s[j].k = kind})

\* a triple is well formed: a Description with a text, then the Check Prereq
\* marker with its fenced block, then at most one Get Prereq marker with its
\* fenced block
WellFormedTriple(tr) ==
  /\ ~AllSp(tr[1].t)
  /\ Len(tr) >= 2 /\ tr[2].k = "check"
  /\ NumKind(tr, "check") = 1
  /\ NumKind(tr, "get") <= 1
  /\ IF HasKind(tr, {"get"})
     THEN /\ NumKind(tr, "fence") = 4
          /\ NumKind(SubSeq(tr, 1, FirstKind(tr, 1, {"get"})), "fence") = 2
     ELSE NumKind(tr, "fence") = 2

\* the Dependency entry a well-formed triple stands for, read from the triple
\* alone
DepOfTriple(tr) ==
  [description |-> unescapeStr(Str(tr[1].t)),
   prereq_command |-> parse_next_code_block(3, tr).content,
   get_prereq_command |->
     IF HasKind(tr, {"get"})
     THEN Val(parse_next_code_block(FirstKind(tr, 1, {"get"}) + 1, tr).content)
     ELSE Null]

\* C12: dependency triples.  In the parsed test of a section whose
\* Dependencies block is made of K well-formed triples, dependencies has K
\* entries in the order of the triples, and the description, prereq_command
\* and get_prereq_command of the k-th entry are those of the k-th triple: a
\* triple with no Get Prereq block has no get_prereq_command.
C12_DependencyTriples ==
  Parsed =>
    \A i \in 1..NumSections :
      LET s == SectionAt(i)
          K == Cardinality(DescLines(s))
          t == cur.technique.atomic_tests[i]
      IN (/\ HasKind(s, {"deps"})
          /\ K >= 1
          /\ \A k \in 1..K : WellFormedTriple(TripleAt(s, k)))
         => t.dependencies = Some([k \in 1..K |-> DepOfTriple(TripleAt(s, k))])

\* the triples of a section whose Description marker has no Check Prereq
\* marker of its own: none between it and the next Description marker
Fragments(section) ==
  {k \in 1..Cardinality(DescLines(section)) :
     ~HasKind(TripleAt(section, k), {"check"})}

\* C13: truncated dependency scan.  In a section whose Dependencies block
\* holds a Description marker with no Check Prereq marker of its own, the
\* triples before the first such marker being well formed with a Get Prereq
\* block each, the parse raises no error, dependencies holds the entries of
\* the triples before that marker and nothing else: no entry is made for the
\* fragment, and the field is missing when the fragment comes first.
C13_TruncatedScan ==
  Parsed =>
    \A i \in 1..NumSections :
      LET s == SectionAt(i)
          t == cur.technique.atomic_tests[i]
          m == Min(Fragments(s))
      IN (/\ HasKind(s, {"deps"})
          /\ Fragments(s) # {}
          /\ \A k \in 1..(m - 1) :
               WellFormedTriple(TripleAt(s, k)) /\ HasKind(TripleAt(s, k), {"get"}))
         => t.dependencies =
              IF m = 1 THEN None
              ELSE Some([k \in 1..(m - 1) |-> DepOfTriple(TripleAt(s, k))])

\* C14: the post-processors are total and order-independent.  On every parsed
\* object, reshaping then unification gives what unification then reshaping
\* gives; either way every executor ends with "procedure" as its one text
\* field, and unification changes nothing but the name of that field.  In
\* process_file neither step raises: with both flags on, the object that
\* reaches the validation is the parsed one with both transforms applied.
C14_PostProcessorsCommute ==
  /\ Parsed =>
       LET x == cur.technique
           ra == restructure_input_arguments_in_technique(x)
           re == restructure_executor_in_technique(x)
       IN /\ restructure_executor_in_technique(ra)
               = restructure_input_arguments_in_technique(re)
          /\ \A i \in 1..Len(x.atomic_tests) :
               /\ restructure_executor_in_technique(ra).atomic_tests[i].executor.key
                    = "procedure"
               /\ [re.atomic_tests[i] EXCEPT
                     !.executor.key = x.atomic_tests[i].executor.key]
                    = x.atomic_tests[i]
          /\ [re EXCEPT !.atomic_tests = x.atomic_tests] = x
  /\ (pc = "validate" /\ flags.restruct_args /\ flags.restruct_executor) =>
       cur.technique =
         restructure_input_arguments_in_technique(
           restructure_executor_in_technique(
             parse_markdown_to_technique(files[idx]).technique))
  /\ (pc = "except" /\ mode # "reshape") =>
       cur.err \in ParseErrors \cup {"JSON Schema validation failed"}

\* both transforms have run on an object with a manual test, a command test
\* and a test with arguments
C14_Witness ==
  /\ pc = "validate" /\ flags.restruct_args /\ flags.restruct_executor
  /\ \E i, j, k \in 1..Len(cur.technique.atomic_tests) :
       /\ cur.technique.atomic_tests[i].executor.name = "manual"
       /\ cur.technique.atomic_tests[j].executor.name # "manual"
       /\ cur.technique.atomic_tests[k].input_arguments.items # <<>>
       /\ cur.technique.atomic_tests[k].input_arguments.form = "list"

\* the order of the steps of a single-document run
StepOrder ==
  {<<"render", "main">>, <<"main", "parse">>,
   <<"parse", "restruct_args">>, <<"parse", "except">>,
   <<"restruct_args", "restruct_executor">>, <<"restruct_executor", "validate">>,
   <<"validate", "output">>, <<"validate", "except">>,
   <<"output", "done">>, <<"except", "done">>}

\* what a single-document run holds to in every state: an output exists only
\* once the run has ended with status 0 after every step succeeded, and a run
\* that ended after an error has status 1, no output, and carries the first
\* error: the parser's when the document does not parse, the schema's otherwise
SingleDocumentSafe ==
  mode = "input" =>
    /\ outputs # {} =>
         /\ pc = "done" /\ status = Some(0) /\ cur.ok
         /\ parse_markdown_to_technique(files[1]).ok
         /\ outputs = {[path |-> IF flags.stdout THEN None ELSE Some(1),
                        data |-> Converted(files[1])]}
    /\ pc = "except" => ~cur.ok /\ outputs = {} /\ status = Running
    /\ (pc = "done" /\ ~cur.ok) =>
         /\ status = Some(1)
         /\ outputs = {}
         /\ cur.err = IF parse_markdown_to_technique(files[1]).ok
                      THEN "JSON Schema validation failed"
                      ELSE parse_markdown_to_technique(files[1]).err
         /\ cur.err = "JSON Schema validation failed" => flags.schema

\* C15: single-document failure leaves no output.  In single-document mode
\* the steps run in the order parse, post-processing, validation, output; an
\* output is written or printed only after each of them succeeded; and when
\* the parse or the validation fails the run ends with the first error,
\* status 1 and no output.
C15_SingleDocumentFailure ==
  /\ []SingleDocumentSafe
  /\ [][mode = "input" => <<pc, pc'>> \in StepOrder]_vars
  /\ (mode = "input" /\ pc = "except") ~> (status = Some(1) /\ outputs = {})

\* a single-document run whose document parsed has ended with status 1 and no
\* output after the schema rejected the object
C15_Witness ==
  /\ mode = "input" /\ pc = "done"
  /\ status = Some(1)
  /\ outputs = {}
  /\ cur.err = "JSON Schema validation failed"
  /\ cur.technique.atomic_tests # <<>>

\* C16: dependency scan progress.  Every pass of the loop that appends an
\* entry leaves the position strictly greater than it found it and past the
\* Description marker it consumed, with or without a Get Prereq block; the
\* Description markers of the entries are therefore all different; the loop
\* ends on every section; and the entries it made are the dependencies parsed.
C16_ScanProgress ==
  /\ [][(pc = "dep_scan" /\ pc' = "dep_scan") =>
          /\ idx' > idx
          /\ Len(results') = Len(results) + 1
          /\ idx' > results'[Len(results')].at
          /\ results'[Len(results')].at >= idx]_vars
  /\ [](\A i, j \in 1..Len(results) : i < j => results[i].at < results[j].at)
  /\ <>(pc = "done")
  /\ [](pc = "done" =>
          [k \in 1..Len(results) |-> results[k].dep]
            = parse_dependencies(files[1], "bash").deps)

\* the loop has ended after a pass that consumed a Get Prereq block and a
\* pass that consumed none
C16_Witness ==
  /\ mode = "dep_scan" /\ pc = "done"
  /\ \E i, j \in 1..Len(results) :
       /\ results[i].dep.get_prereq_command # Null
       /\ results[j].dep.get_prereq_command = Null

====
